---- MODULE Spec2Model ----
(***************************************************************************)
(* Model of scripts/export-knowledge-data.js: the Knowledge Base export    *)
(* run (exportKnowledgeData), the CSV rendering (jsonToCsv), the summary   *)
(* reducer (generateSummary) and the best-effort logger (logExport).       *)
(*                                                                         *)
(* JavaScript values are tagged records; text is a sequence of one-        *)
(* character strings, so that quoting, joining and parsing act on          *)
(* characters.  Property names are TLA+ strings.                           *)
(***************************************************************************)
EXTENDS Integers, Sequences, FiniteSets, Bags, TLC

VARIABLES env, run, arg, ret, phase

vars == <<env, run, arg, ret, phase>>

(***************************************************************************)
(* Bounds of the model.                                                    *)
(***************************************************************************)
MaxStrLen == 2
MaxCsvRecords == 2
MaxSumRecords == 3
MaxRunRecords == 2
MaxClock == 1

(***************************************************************************)
(* JavaScript values.                                                      *)
(***************************************************************************)
Null == [t |-> "null"]
Undefined == [t |-> "undefined"]
Bool(b) == [t |-> "boolean", b |-> b]
Num(n) == [t |-> "number", n |-> n]
Str(s) == [t |-> "string", s |-> s]
\* An object's own properties in the engine's property order (integer-like
\* names first, the other names in the order of the document).
Obj(k, v) == [t |-> "object", k |-> k, v |-> v]
Arr(items) == [t |-> "array", items |-> items]

Nullish(v) == v.t \in {"null", "undefined"}

\* ToBoolean: null, undefined, false, 0 and '' are falsy, the rest truthy.
Falsy(v) ==
  CASE v.t \in {"null", "undefined"} -> TRUE
    [] v.t = "boolean" -> ~v.b
    [] v.t = "number" -> v.n = 0
    [] v.t = "string" -> v.s = <<>>
    [] OTHER -> FALSE

Truthy(v) == ~Falsy(v)

COMMA == ","
DQ == "\""
NL == "\n"

DigitChars == <<"0", "1", "2", "3", "4", "5", "6", "7", "8", "9">>

RECURSIVE NumChars(_)
\* Number-to-text of a natural number.
NumChars(n) ==
  IF n < 10 THEN <<DigitChars[n + 1]>>
  ELSE NumChars(n \div 10) \o <<DigitChars[(n % 10) + 1]>>

\* String(value), also the coercion of a value used as a property key.
StringOf(v) ==
  CASE v.t = "string" -> v.s
    [] v.t = "number" -> NumChars(v.n)
    [] v.t = "boolean" -> IF v.b THEN <<"t", "r", "u", "e">> ELSE <<"f", "a", "l", "s", "e">>
    [] v.t = "null" -> <<"n", "u", "l", "l">>
    [] v.t = "undefined" -> <<"u", "n", "d", "e", "f", "i", "n", "e", "d">>

\* The characters of a property name.
NameChars(name) ==
  CASE name = "id" -> <<"i", "d">>
    [] name = "title" -> <<"t", "i", "t", "l", "e">>
    [] name = "articleType" -> <<"a", "r", "t", "i", "c", "l", "e", "T", "y", "p", "e">>
    [] name = "language" -> <<"l", "a", "n", "g", "u", "a", "g", "e">>
    [] name = "publishStatus" -> <<"p", "u", "b", "l", "i", "s", "h", "S", "t", "a", "t", "u", "s">>
    [] name = "isVisibleInPkb" -> <<"i", "s", "V", "i", "s", "i", "b", "l", "e", "I", "n", "P", "k", "b">>
    [] name = "isVisibleInCsp" -> <<"i", "s", "V", "i", "s", "i", "b", "l", "e", "I", "n", "C", "s", "p">>
    [] name = "isVisibleInPrm" -> <<"i", "s", "V", "i", "s", "i", "b", "l", "e", "I", "n", "P", "r", "m">>
    [] name = "createdDate" -> <<"c", "r", "e", "a", "t", "e", "d", "D", "a", "t", "e">>
    [] name = "length" -> <<"l", "e", "n", "g", "t", "h">>
    [] name = "0" -> <<"0">>
    [] name = "1" -> <<"1">>
    [] name = "2" -> <<"2">>
    [] name = "3" -> <<"3">>

IndexNames == <<"0", "1", "2", "3">>

\* value[name] for a value that is not null or undefined (those throw).
Get(o, name) ==
  CASE o.t = "object" ->
         IF \E i \in 1..Len(o.k) : o.k[i] = name
         THEN o.v[CHOOSE i \in 1..Len(o.k) : o.k[i] = name]
         ELSE Undefined
    [] o.t = "array" ->
         IF name = "length" THEN Num(Len(o.items))
         ELSE IF \E i \in 1..Len(o.items) : IndexNames[i] = name
         THEN o.items[CHOOSE i \in 1..Len(o.items) : IndexNames[i] = name]
         ELSE Undefined
    [] o.t = "string" ->
         IF name = "length" THEN Num(Len(o.s))
         ELSE IF \E i \in 1..Len(o.s) : IndexNames[i] = name
         THEN Str(<<o.s[CHOOSE i \in 1..Len(o.s) : IndexNames[i] = name]>>)
         ELSE Undefined
    [] OTHER -> Undefined

\* Object.keys(value) for a value that is not null or undefined.
ObjectKeys(o) ==
  CASE o.t = "object" -> o.k
    [] o.t = "array" -> [i \in 1..Len(o.items) |-> IndexNames[i]]
    [] o.t = "string" -> [i \in 1..Len(o.s) |-> IndexNames[i]]
    [] OTHER -> <<>>

\* Only arrays carry map and forEach.
HasArrayMethods(v) == v.t = "array"

Returns(v) == [throws |-> FALSE, val |-> v]
Throws(e) == [throws |-> TRUE, val |-> e]

RECURSIVE Join(_, _)
\* parts.join(sep)
Join(parts, sep) ==
  IF parts = <<>> THEN <<>>
  ELSE IF Len(parts) = 1 THEN parts[1]
  ELSE parts[1] \o <<sep>> \o Join(Tail(parts), sep)

\* ReplaceQuotes without the doubling of embedded quotes.
ReplaceQuotes_none(s) == s

RECURSIVE ReplaceQuotes(_)
\* text.replace(/"/g, '""')
ReplaceQuotes(s) ==
  IF s = <<>> THEN <<>>
  ELSE (IF Head(s) = DQ THEN <<DQ, DQ>> ELSE <<Head(s)>>) \o ReplaceQuotes(Tail(s))

Includes(s, c) == \E i \in 1..Len(s) : s[i] = c

\* The cell of one value: the body of the inner map callback.
CsvCell(value) ==
  IF value = Null \/ value = Undefined THEN <<>>
  ELSE LET stringValue == ReplaceQuotes(StringOf(value))
       IN IF Includes(stringValue, COMMA) \/ Includes(stringValue, DQ) \/ Includes(stringValue, NL)
          THEN <<DQ>> \o stringValue \o <<DQ>>
          ELSE stringValue

\* CsvRow taking the columns from the article's own keys instead of the headers.
CsvRow_ownKeys(article, headers) ==
  Join([j \in 1..Len(ObjectKeys(article)) |-> CsvCell(Get(article, ObjectKeys(article)[j]))], COMMA)

\* The row of one article: the body of the outer map callback.
CsvRow(article, headers) ==
  Join([j \in 1..Len(headers) |-> CsvCell(Get(article, headers[j]))], COMMA)

jsonToCsv(articles) ==
  IF Falsy(articles) THEN Returns(<<>>)
  ELSE IF Get(articles, "length") = Num(0) THEN Returns(<<>>)
  ELSE IF Nullish(Get(articles, "0")) THEN Throws("TypeError")
  ELSE LET headers == ObjectKeys(Get(articles, "0"))
           csvHeader == Join([j \in 1..Len(headers) |-> NameChars(headers[j])], COMMA)
       IN IF ~HasArrayMethods(articles) THEN Throws("TypeError")
          ELSE IF headers # <<>> /\ \E i \in 1..Len(articles.items) : Nullish(articles.items[i])
          THEN Throws("TypeError")
          ELSE Returns(Join(<<csvHeader>> \o
                            [i \in 1..Len(articles.items) |-> CsvRow(articles.items[i], headers)],
                            NL))

(***************************************************************************)
(* generateSummary.                                                        *)
(***************************************************************************)
\* A time value: NaN for an Invalid Date, otherwise a count of months.
NaN == [nan |-> TRUE]
Time(n) == [nan |-> FALSE, t |-> n]

IsDigit(c) == \E d \in 1..10 : DigitChars[d] = c
DigitVal(c) == (CHOOSE d \in 1..10 : DigitChars[d] = c) - 1

\* new Date(value) for a string value: the ISO forms YYYY and YYYY-MM are
\* parsed (a missing month is January); any other text of the model's
\* universe is not a date and gives an Invalid Date.
NewDate(v) ==
  LET s == v.s
      year == DigitVal(s[1]) * 1000 + DigitVal(s[2]) * 100 + DigitVal(s[3]) * 10 + DigitVal(s[4])
      month == DigitVal(s[6]) * 10 + DigitVal(s[7])
  IN CASE v.t = "string" ->
       IF Len(s) = 4 /\ \A i \in 1..4 : IsDigit(s[i]) THEN Time(year * 12)
       ELSE IF /\ Len(s) = 7
               /\ \A i \in {1, 2, 3, 4, 6, 7} : IsDigit(s[i])
               /\ s[5] = "-"
               /\ month \in 1..12
       THEN Time(year * 12 + month - 1)
       ELSE NaN

\* a < b on Date objects: false whenever either side is NaN.
DateLt(a, b) == ~a.nan /\ ~b.nan /\ a.t < b.t

\* Tally leaving out the records whose value is null or absent.
Tally_skipNull(tally, value) ==
  IF Nullish(value) THEN tally ELSE tally (+) SetToBag({StringOf(value)})

\* tally[key] = (tally[key] || 0) + 1, the tally held as a bag of keys.
Tally(tally, value) == tally (+) SetToBag({StringOf(value)})

\* The body of the forEach callback, for an article that is not null.
SummaryStep(summary, article) ==
  LET cd == Get(article, "createdDate")
      dr == summary.dateRange
      vs == summary.visibilityStats
      newEarliest ==
        IF Truthy(cd) /\ (Falsy(dr.earliest) \/ DateLt(NewDate(cd), NewDate(dr.earliest)))
        THEN cd ELSE dr.earliest
      newLatest ==
        IF Truthy(cd) /\ (Falsy(dr.latest) \/ DateLt(NewDate(dr.latest), NewDate(cd)))
        THEN cd ELSE dr.latest
  IN [summary EXCEPT
        !.articleTypes = Tally(@, Get(article, "articleType")),
        !.languages = Tally(@, Get(article, "language")),
        !.publishStatuses = Tally(@, Get(article, "publishStatus")),
        !.visibilityStats =
           [visibleInPkb |-> vs.visibleInPkb + (IF Truthy(Get(article, "isVisibleInPkb")) THEN 1 ELSE 0),
            visibleInCsp |-> vs.visibleInCsp + (IF Truthy(Get(article, "isVisibleInCsp")) THEN 1 ELSE 0),
            visibleInPrm |-> vs.visibleInPrm + (IF Truthy(Get(article, "isVisibleInPrm")) THEN 1 ELSE 0)],
        !.dateRange = [earliest |-> newEarliest, latest |-> newLatest]]

RECURSIVE SummaryFold(_, _)
\* articles.forEach(...) over the items, left to right.
SummaryFold(summary, items) ==
  IF items = <<>> THEN Returns(summary)
  ELSE IF Nullish(Head(items)) THEN Throws("TypeError")
  ELSE SummaryFold(SummaryStep(summary, Head(items)), Tail(items))

\* generateSummary(articles); now is the clock reading of new Date().
generateSummary(articles, now) ==
  IF Nullish(articles) THEN Throws("TypeError")
  ELSE LET summary == [exportDate |-> now,
                       totalArticles |-> Get(articles, "length"),
                       articleTypes |-> EmptyBag,
                       languages |-> EmptyBag,
                       publishStatuses |-> EmptyBag,
                       visibilityStats |-> [visibleInPkb |-> 0, visibleInCsp |-> 0, visibleInPrm |-> 0],
                       dateRange |-> [earliest |-> Null, latest |-> Null]]
       IN IF ~HasArrayMethods(articles) THEN Throws("TypeError")
          ELSE SummaryFold(summary, articles.items)

(***************************************************************************)
(* The files of the data directory and the export run.                     *)
(***************************************************************************)
\* An output file: absent, holding a complete content, or cut short by a
\* failed write.
Absent == [st |-> "absent"]
Whole(data) == [st |-> "whole", data |-> data]
Partial == [st |-> "partial"]

\* articles.json: absent, text that is not JSON, or the text of a JSON value
\* (held as the value it denotes).
NoFile == [exists |-> FALSE]
BadText == [exists |-> TRUE, valid |-> FALSE]
JsonText(v) == [exists |-> TRUE, valid |-> TRUE, value |-> v]

\* JSON.parse taking text that is not JSON for an empty array.
JSONparse_lenient(text) ==
  IF text.valid THEN Returns(text.value) ELSE Returns(Arr(<<>>))

\* JSON.parse(text)
JSONparse(text) ==
  IF text.valid THEN Returns(text.value) ELSE Throws("SyntaxError")

\* The state of a run before its first step.
InitRun ==
  [pc |-> "start", articles |-> Undefined, summary |-> Undefined, steps |-> <<>>,
   csvFile |-> Absent, summaryFile |-> Absent, log |-> <<>>,
   exitCode |-> 0, error |-> "none"]

Terminated(r) == r.pc = "exited"

\* process.exit(code), and the return from the script after the last statement.
Exit(r, code) == [r EXCEPT !.pc = "exited", !.exitCode = code]

\* An exception raised inside the try block: control moves to the catch block.
Raise(r, e) == [r EXCEPT !.pc = "catch", !.error = e]

\* logExport letting a failed append escape as an exception.
logExport_rethrow(log, operation, status, details, appendOk) ==
  [threw |-> ~appendOk,
   log |-> IF appendOk
           THEN Append(log, [operation |-> operation, status |-> status, details |-> details])
           ELSE log]

\* logExport(operation, status, details): appends one entry to the log file;
\* appendOk says whether fs.appendFileSync succeeds.  A failed append is
\* reported on the console and not rethrown.
logExport(log, operation, status, details, appendOk) ==
  [threw |-> FALSE,
   log |-> IF appendOk
           THEN Append(log, [operation |-> operation, status |-> status, details |-> details])
           ELSE log]

\* A logExport call inside the try block, followed by the statements up to the
\* next file operation.
LogStep(r, operation, details, appendOk, nextPc) ==
  LET res == logExport(r.log, operation, "SUCCESS", details, appendOk)
  IN IF res.threw THEN Raise([r EXCEPT !.log = res.log], "LogError")
     ELSE [r EXCEPT !.log = res.log, !.pc = nextPc]

\* CheckExistsStep carrying on with no articles when the file is missing.
CheckExistsStep_defaultEmpty(r, e) ==
  IF ~e.input.exists THEN [r EXCEPT !.articles = Arr(<<>>), !.pc = "log_read"]
  ELSE [r EXCEPT !.pc = "read"]

\* fs.existsSync(ARTICLES_JSON) and the early exit.
CheckExistsStep(r, e) ==
  IF ~e.input.exists THEN Exit(r, 1) ELSE [r EXCEPT !.pc = "read"]

\* fs.readFileSync, JSON.parse and the evaluation of articles.length for the
\* first log entry.
ReadStep(r, e) ==
  LET r1 == [r EXCEPT !.steps = Append(@, "read")]
      parsed == JSONparse(e.input)
  IN IF ~e.readOk THEN Raise(r1, "ReadError")
     ELSE IF parsed.throws THEN Raise(r1, parsed.val)
     ELSE IF Nullish(parsed.val) THEN Raise([r1 EXCEPT !.articles = parsed.val], "TypeError")
     ELSE [r1 EXCEPT !.articles = parsed.val, !.pc = "log_read"]

\* jsonToCsv and fs.writeFileSync(ARTICLES_CSV, csvData).
CsvStep(r, e) ==
  LET csvData == jsonToCsv(r.articles)
      r1 == [r EXCEPT !.steps = Append(@, "csv")]
  IN IF csvData.throws THEN Raise(r, csvData.val)
     ELSE IF e.csvWrite = "ok" THEN [r1 EXCEPT !.csvFile = Whole(csvData.val), !.pc = "log_csv"]
     ELSE IF e.csvWrite = "partial" THEN Raise([r1 EXCEPT !.csvFile = Partial], "WriteError")
     ELSE Raise(r1, "WriteError")

\* SummaryWriteStep removing the CSV file when the summary write fails.
SummaryWriteStep_rollback(r, e) ==
  LET summary == generateSummary(r.articles, e.now)
      r1 == [r EXCEPT !.steps = Append(@, "summary")]
  IN IF summary.throws THEN Raise(r, summary.val)
     ELSE LET r2 == [r1 EXCEPT !.summary = summary.val]
          IN IF e.sumWrite = "ok"
             THEN [r2 EXCEPT !.summaryFile = Whole(summary.val), !.pc = "log_summary"]
             ELSE Raise([r2 EXCEPT !.csvFile = Absent], "WriteError")

\* generateSummary and fs.writeFileSync(SUMMARY_JSON, JSON.stringify(summary)).
SummaryWriteStep(r, e) ==
  LET summary == generateSummary(r.articles, e.now)
      r1 == [r EXCEPT !.steps = Append(@, "summary")]
  IN IF summary.throws THEN Raise(r, summary.val)
     ELSE LET r2 == [r1 EXCEPT !.summary = summary.val]
          IN IF e.sumWrite = "ok"
             THEN [r2 EXCEPT !.summaryFile = Whole(summary.val), !.pc = "log_summary"]
             ELSE IF e.sumWrite = "partial"
             THEN Raise([r2 EXCEPT !.summaryFile = Partial], "WriteError")
             ELSE Raise(r2, "WriteError")

\* The catch block: the EXPORT_ERROR entry and process.exit(1).  An exception
\* leaving the catch block ends the process with status 1 as well.
CatchStep(r, appendOk) ==
  LET res == logExport(r.log, "EXPORT_ERROR", "FAILED", [message |-> r.error], appendOk)
  IN Exit([r EXCEPT !.log = res.log], 1)

\* One step of the run from its position, with the given outcome of the log
\* append (if the step makes one).
StepRun(r, e, appendOk) ==
  CASE r.pc = "start" -> CheckExistsStep(r, e)
    [] r.pc = "read" -> ReadStep(r, e)
    [] r.pc = "log_read" ->
         LogStep(r, "READ_ARTICLES", [count |-> Get(r.articles, "length")], appendOk, "csv")
    [] r.pc = "csv" -> CsvStep(r, e)
    [] r.pc = "log_csv" ->
         LogStep(r, "GENERATE_CSV", [count |-> Get(r.articles, "length")], appendOk, "summary")
    [] r.pc = "summary" -> SummaryWriteStep(r, e)
    [] r.pc = "log_summary" ->
         LogStep(r, "GENERATE_SUMMARY", [count |-> r.summary.totalArticles], appendOk, "log_complete")
    [] r.pc = "log_complete" ->
         LET r1 == LogStep(r, "EXPORT_COMPLETE", [text |-> "All formats generated"], appendOk, "end")
         IN IF r1.pc = "end" THEN Exit(r1, 0) ELSE r1
    [] r.pc = "catch" -> CatchStep(r, appendOk)

RECURSIVE RunToEnd(_, _)
\* The run carried to its end with every log append succeeding.
RunToEnd(r, e) == IF Terminated(r) THEN r ELSE RunToEnd(StepRun(r, e, TRUE), e)

(***************************************************************************)
(* Inputs.                                                                 *)
(***************************************************************************)
SeqsUpTo(S, n) == UNION {[1..k -> S] : k \in 0..n}

FAQ == <<"F", "A", "Q">>
Y2023 == <<"2", "0", "2", "3">>
Y2023Jan == <<"2", "0", "2", "3", "-", "0", "1">>
Y2024 == <<"2", "0", "2", "4">>
NotADate == <<"x">>

\* Articles of the files the run is given.
RunItems ==
  {Obj(<<"title", "articleType", "isVisibleInPkb", "createdDate">>,
       <<Str(<<"a", COMMA, "b">>), Str(FAQ), Bool(TRUE), Str(Y2023)>>),
   Obj(<<"title", "articleType", "language", "createdDate">>,
       <<Null, Null, Str(<<"e", "n">>), Str(NotADate)>>),
   Obj(<<"title", "createdDate">>, <<Str(<<"q", DQ>>), Str(Y2024)>>),
   Null}

\* JSON documents that are not arrays.
NonArrays ==
  {Null, Bool(TRUE), Bool(FALSE), Num(0), Num(5), Str(<<>>), Str(<<"a", "b">>),
   Obj(<<>>, <<>>),
   Obj(<<"length">>, <<Num(0)>>),
   Obj(<<"0">>, <<Obj(<<"title">>, <<Str(<<"a">>)>>)>>),
   Obj(<<"0", "length">>, <<Obj(<<"title">>, <<Str(<<"a">>)>>), Num(1)>>)}

InputFiles ==
  {NoFile, BadText}
    \cup {JsonText(v) : v \in NonArrays}
    \cup {JsonText(Arr(s)) : s \in SeqsUpTo(RunItems, MaxRunRecords)}

WriteOutcomes == {"ok", "fail", "partial"}

Envs ==
  [input : InputFiles, readOk : BOOLEAN, csvWrite : WriteOutcomes,
   sumWrite : WriteOutcomes, now : 0..MaxClock]

\* Inputs of jsonToCsv.
Fields == {"id", "title"}
Alphabet == {"a", COMMA, DQ, NL}

KeySeqs ==
  {k \in SeqsUpTo(Fields, Cardinality(Fields)) :
     \A i, j \in 1..Len(k) : k[i] = k[j] => i = j}

SmallValues == {Null, Str(<<"a">>), Str(<<COMMA, DQ>>)}

AllValues ==
  {Str(s) : s \in SeqsUpTo(Alphabet, MaxStrLen)}
    \cup {Null, Num(0), Num(12), Bool(TRUE), Bool(FALSE)}

CsvRecords ==
  UNION {{Obj(k, v) : v \in [1..Len(k) -> SmallValues]} : k \in KeySeqs}

CsvInputs ==
  {Arr(s) : s \in SeqsUpTo(CsvRecords, MaxCsvRecords)}
    \cup {Arr(<<Obj(<<"id", "title">>, <<v, w>>)>>) : v \in AllValues, w \in AllValues}

\* Inputs of generateSummary: the categorical fields and the flags of a
\* record come from a profile, its createdDate from Dates.
Profiles ==
  {Obj(<<"articleType", "language", "publishStatus", "isVisibleInPkb", "isVisibleInCsp", "isVisibleInPrm">>,
       <<Str(FAQ), Str(<<"e", "n">>), Str(<<"O", "n">>), Bool(TRUE), Bool(FALSE), Bool(TRUE)>>),
   Obj(<<"articleType", "language", "isVisibleInPkb", "isVisibleInCsp">>,
       <<Null, Str(<<"f", "r">>), Bool(FALSE), Str(<<"n", "o">>)>>),
   Obj(<<"articleType", "publishStatus", "isVisibleInPkb", "isVisibleInCsp", "isVisibleInPrm">>,
       <<Str(FAQ), Null, Num(1), Num(0), Null>>)}

Dates == {Str(<<>>), Str(Y2023), Str(Y2023Jan), Str(Y2024), Str(NotADate)}

SumRecords ==
  Profiles \cup {Obj(Append(p.k, "createdDate"), Append(p.v, d)) : p \in Profiles, d \in Dates}

SumInputs == {Arr(s) : s \in SeqsUpTo(SumRecords, MaxSumRecords)}

IdleEnv ==
  [input |-> NoFile, readOk |-> TRUE, csvWrite |-> "ok", sumWrite |-> "ok", now |-> 0]

(***************************************************************************)
(* The export run: Spec.                                                   *)
(***************************************************************************)
Init ==
  /\ env \in Envs
  /\ run = InitRun
  /\ arg = Undefined
  /\ ret = Undefined
  /\ phase = "run"

CheckExists ==
  /\ run.pc = "start"
  /\ run' = CheckExistsStep(run, env)
  /\ UNCHANGED <<env, arg, ret, phase>>

ReadArticles ==
  /\ run.pc = "read"
  /\ run' = ReadStep(run, env)
  /\ UNCHANGED <<env, arg, ret, phase>>

LogRead ==
  /\ run.pc = "log_read"
  /\ \E appendOk \in BOOLEAN : run' = StepRun(run, env, appendOk)
  /\ UNCHANGED <<env, arg, ret, phase>>

WriteCsv ==
  /\ run.pc = "csv"
  /\ run' = CsvStep(run, env)
  /\ UNCHANGED <<env, arg, ret, phase>>

LogCsv ==
  /\ run.pc = "log_csv"
  /\ \E appendOk \in BOOLEAN : run' = StepRun(run, env, appendOk)
  /\ UNCHANGED <<env, arg, ret, phase>>

WriteSummary ==
  /\ run.pc = "summary"
  /\ run' = SummaryWriteStep(run, env)
  /\ UNCHANGED <<env, arg, ret, phase>>

LogSummary ==
  /\ run.pc = "log_summary"
  /\ \E appendOk \in BOOLEAN : run' = StepRun(run, env, appendOk)
  /\ UNCHANGED <<env, arg, ret, phase>>

LogComplete ==
  /\ run.pc = "log_complete"
  /\ \E appendOk \in BOOLEAN : run' = StepRun(run, env, appendOk)
  /\ UNCHANGED <<env, arg, ret, phase>>

CatchError ==
  /\ run.pc = "catch"
  /\ \E appendOk \in BOOLEAN : run' = CatchStep(run, appendOk)
  /\ UNCHANGED <<env, arg, ret, phase>>

Next ==
  \/ CheckExists
  \/ ReadArticles
  \/ LogRead
  \/ WriteCsv
  \/ LogCsv
  \/ WriteSummary
  \/ LogSummary
  \/ LogComplete
  \/ CatchError

Spec == Init /\ [][Next]_vars

(***************************************************************************)
(* jsonToCsv applied to bounded inputs: CsvSpec.                           *)
(***************************************************************************)
CsvInit ==
  /\ env = IdleEnv
  /\ run = InitRun
  /\ arg \in CsvInputs
  /\ ret = Undefined
  /\ phase = "csv_in"

CsvApply ==
  /\ phase = "csv_in"
  /\ ret' = jsonToCsv(arg)
  /\ phase' = "csv_out"
  /\ UNCHANGED <<env, run, arg>>

CsvNext == CsvApply

CsvSpec == CsvInit /\ [][CsvNext]_vars

(***************************************************************************)
(* generateSummary applied to bounded inputs: SumSpec.                     *)
(***************************************************************************)
SumInit ==
  /\ env = IdleEnv
  /\ run = InitRun
  /\ arg \in SumInputs
  /\ ret = Undefined
  /\ phase = "sum_in"

SumApply ==
  /\ phase = "sum_in"
  /\ ret' = generateSummary(arg, env.now)
  /\ phase' = "sum_out"
  /\ UNCHANGED <<env, run, arg>>

SumNext == SumApply

SumSpec == SumInit /\ [][SumNext]_vars

(***************************************************************************)
(* Properties of the export run (checked under Spec).                      *)
(***************************************************************************)
NonArrayInput == env.input.exists /\ env.input.valid /\ env.input.value.t # "array"
MalformedInput == env.input.exists /\ (~env.input.valid \/ env.input.value.t # "array")
Wrote(name) == \E i \in 1..Len(run.steps) : run.steps[i] = name

\* C1: when articles.json does not exist the run ends with a non-zero exit
\* status at its first step, and neither the CSV file nor the summary file is
\* written at any point of the run.
C1_MissingInputAborts ==
  (phase = "run" /\ ~env.input.exists) =>
     /\ run.steps = <<>>
     /\ run.csvFile = Absent
     /\ run.summaryFile = Absent
     /\ run.pc \in {"start", "exited"}
     /\ Terminated(run) => run.exitCode # 0

C1_Witness == phase = "run" /\ ~env.input.exists /\ Terminated(run)

\* C2: an input that is not valid JSON, or is valid JSON but not an array,
\* ends the run with a non-zero exit status; the exit status is zero only when
\* the input was read and parsed and both outputs were written.
C2_MalformedInputAborts ==
  (phase = "run" /\ Terminated(run)) =>
     /\ MalformedInput => run.exitCode # 0
     /\ run.exitCode = 0 =>
          /\ env.input.exists /\ env.input.valid /\ env.readOk
          /\ run.articles = env.input.value
          /\ run.steps = <<"read", "csv", "summary">>
          /\ run.csvFile.st = "whole"
          /\ run.summaryFile.st = "whole"

C2_Witness ==
  /\ phase = "run"
  /\ Terminated(run)
  /\ env.input = JsonText(Obj(<<"length">>, <<Num(0)>>))
  /\ run.exitCode = 1

IsPrefix(s, t) == Len(s) <= Len(t) /\ \A i \in 1..Len(s) : s[i] = t[i]

\* C3: whichever log appends fail, the run performs the same load-bearing
\* steps, writes the same CSV and summary contents and ends with the same exit
\* status as the run in which every log append succeeds.
C3_LogFailureIsHarmless ==
  phase = "run" =>
     LET ref == RunToEnd(InitRun, env)
     IN /\ IsPrefix(run.steps, ref.steps)
        /\ Terminated(run) =>
             /\ run.steps = ref.steps
             /\ run.csvFile = ref.csvFile
             /\ run.summaryFile = ref.summaryFile
             /\ run.exitCode = ref.exitCode

C3_Witness ==
  /\ phase = "run"
  /\ Terminated(run)
  /\ run.exitCode = 0
  /\ run.log = <<>>
  /\ Len(RunToEnd(InitRun, env).log) = 4

\* C4: the load-bearing steps happen in the order read, CSV write, summary
\* write; a failed output write ends the run with a non-zero exit status; a
\* failed CSV write means the summary file is never written, and a failed
\* summary write leaves the CSV file written earlier in place, complete.
C4_WriteOrderNoRollback ==
  phase = "run" =>
     /\ IsPrefix(run.steps, <<"read", "csv", "summary">>)
     /\ (Wrote("csv") /\ env.csvWrite # "ok") =>
          /\ ~Wrote("summary")
          /\ run.summaryFile = Absent
          /\ Terminated(run) => run.exitCode # 0
     /\ (Wrote("summary") /\ env.sumWrite # "ok") =>
          /\ run.csvFile = Whole(jsonToCsv(run.articles).val)
          /\ Terminated(run) => run.exitCode # 0

C4_Witness ==
  /\ phase = "run"
  /\ Terminated(run)
  /\ Wrote("summary")
  /\ env.sumWrite = "partial"
  /\ run.csvFile.st = "whole"
  /\ run.csvFile.data # <<>>

\* C10: a run whose input parses to a value that is not an array writes
\* neither output file and appends no log entry with status SUCCESS.
C10_NonArrayWritesNothing ==
  (phase = "run" /\ NonArrayInput) =>
     /\ ~Wrote("csv")
     /\ ~Wrote("summary")
     /\ run.csvFile = Absent
     /\ run.summaryFile = Absent
     /\ \A i \in 1..Len(run.log) : run.log[i].status # "SUCCESS"

(***************************************************************************)
(* Properties of jsonToCsv (checked under CsvSpec).                        *)
(***************************************************************************)
RECURSIVE CsvScan(_, _, _, _, _, _)
\* An RFC-4180 reader: the rows of the text, each a sequence of cells as they
\* are written (quotes kept).  Commas and newlines separate cells and rows
\* outside quotes only; inside quotes a doubled quote is a quote character.
CsvScan(text, i, inQuotes, cell, row, rows) ==
  IF i > Len(text) THEN Append(rows, Append(row, cell))
  ELSE LET c == text[i]
       IN IF inQuotes
          THEN IF c = DQ /\ i < Len(text) /\ text[i + 1] = DQ
               THEN CsvScan(text, i + 2, TRUE, cell \o <<DQ, DQ>>, row, rows)
               ELSE CsvScan(text, i + 1, c # DQ, Append(cell, c), row, rows)
          ELSE IF c = DQ THEN CsvScan(text, i + 1, TRUE, Append(cell, c), row, rows)
          ELSE IF c = COMMA THEN CsvScan(text, i + 1, FALSE, <<>>, Append(row, cell), rows)
          ELSE IF c = NL THEN CsvScan(text, i + 1, FALSE, <<>>, <<>>, Append(rows, Append(row, cell)))
          ELSE CsvScan(text, i + 1, FALSE, Append(cell, c), row, rows)

CsvRawRows(text) == CsvScan(text, 1, FALSE, <<>>, <<>>, <<>>)

RECURSIVE Undouble(_)
Undouble(s) ==
  IF s = <<>> THEN <<>>
  ELSE IF Len(s) >= 2 /\ s[1] = DQ /\ s[2] = DQ THEN <<DQ>> \o Undouble(Tail(Tail(s)))
  ELSE <<Head(s)>> \o Undouble(Tail(s))

\* The value a reader recovers from a written cell.
Unquote(raw) ==
  IF Len(raw) >= 2 /\ raw[1] = DQ /\ raw[Len(raw)] = DQ
  THEN Undouble(SubSeq(raw, 2, Len(raw) - 1))
  ELSE raw

HasField(rec, name) == \E i \in 1..Len(rec.k) : rec.k[i] = name
FieldOf(rec, name) == rec.v[CHOOSE i \in 1..Len(rec.k) : rec.k[i] = name]

\* The text of a scalar value.
TextOf(v) ==
  CASE v.t = "string" -> v.s
    [] v.t = "boolean" -> IF v.b THEN <<"t", "r", "u", "e">> ELSE <<"f", "a", "l", "s", "e">>
    [] v.t = "number" /\ v.n = 0 -> <<"0">>
    [] v.t = "number" /\ v.n = 12 -> <<"1", "2">>

\* The cell a reader must recover for a field of a record: empty when the
\* field is absent or null, the text of the value otherwise.
ExpectedCell(rec, name) ==
  IF ~HasField(rec, name) \/ FieldOf(rec, name) = Null THEN <<>>
  ELSE TextOf(FieldOf(rec, name))

\* A line without any comma reads as one empty cell, also when it has no field.
ExpectedRow(cells) == IF cells = <<>> THEN <<<<>>>> ELSE cells

ReadRows(text) ==
  LET raw == CsvRawRows(text)
  IN [i \in 1..Len(raw) |-> [j \in 1..Len(raw[i]) |-> Unquote(raw[i][j])]]

\* C5: an empty sequence gives the empty text; otherwise the text reads as a
\* header row holding the field names of the first record in their order,
\* followed by one row per record with one cell per header field in header
\* order, empty for a null or absent field; fields that the first record does
\* not have contribute nothing.
C5_CsvShape ==
  phase = "csv_out" =>
     /\ ~ret.throws
     /\ IF arg.items = <<>> THEN ret.val = <<>>
        ELSE LET headers == arg.items[1].k
                 rows == ReadRows(ret.val)
             IN /\ Len(rows) = 1 + Len(arg.items)
                /\ rows[1] = ExpectedRow([j \in 1..Len(headers) |-> NameChars(headers[j])])
                /\ \A i \in 1..Len(arg.items) :
                     rows[i + 1] =
                       ExpectedRow([j \in 1..Len(headers) |-> ExpectedCell(arg.items[i], headers[j])])

C5_Witness ==
  /\ phase = "csv_out"
  /\ Len(arg.items) = 2
  /\ arg.items[1].k = <<"title">>
  /\ arg.items[1].v = <<Null>>
  /\ arg.items[2].k = <<"id", "title">>
  /\ arg.items[2].v = <<Str(<<COMMA, DQ>>), Str(<<"a">>)>>
  /\ ret.val = <<"t", "i", "t", "l", "e", NL, NL, "a">>

Special(text) == Includes(text, COMMA) \/ Includes(text, DQ) \/ Includes(text, NL)
CountOf(text, c) == Cardinality({i \in 1..Len(text) : text[i] = c})

\* C6: a value whose text holds a comma, a double quote or a newline is
\* written wrapped in double quotes with every embedded double quote doubled,
\* and a reader recovers the original text in the same column; a value
\* holding none of the three is written unquoted and unchanged.
C6_QuotingRoundTrips ==
  (phase = "csv_out" /\ arg.items # <<>>) =>
     LET headers == arg.items[1].k
         raw == CsvRawRows(ret.val)
     IN \A i \in 1..Len(arg.items) : \A j \in 1..Len(headers) :
          LET rec == arg.items[i]
              text == TextOf(FieldOf(rec, headers[j]))
              cell == raw[i + 1][j]
          IN (HasField(rec, headers[j]) /\ FieldOf(rec, headers[j]) # Null) =>
               /\ Len(raw) = 1 + Len(arg.items)
               /\ Len(raw[i + 1]) = Len(headers)
               /\ IF Special(text)
                  THEN /\ cell[1] = DQ
                       /\ cell[Len(cell)] = DQ
                       /\ Len(cell) = Len(text) + 2 + CountOf(text, DQ)
                       /\ Unquote(cell) = text
                  ELSE cell = text

C6_Witness ==
  /\ phase = "csv_out"
  /\ Len(arg.items) = 1
  /\ arg.items[1].k = <<"id", "title">>
  /\ arg.items[1].v = <<Str(<<DQ, COMMA>>), Str(<<NL, "a">>)>>
  /\ ret.val = <<"i", "d", COMMA, "t", "i", "t", "l", "e", NL,
                 DQ, DQ, DQ, COMMA, DQ, COMMA, DQ, NL, "a", DQ>>

(***************************************************************************)
(* Properties of generateSummary (checked under SumSpec).                  *)
(***************************************************************************)
Perms(n) == {p \in [1..n -> 1..n] : \A i, j \in 1..n : p[i] = p[j] => i = j}

\* The instant an endpoint of the date range resolves to.
Resolved(v) == IF v = Null THEN [none |-> TRUE] ELSE NewDate(v)

\* C7: the summary of a permutation of the records has the same
\* totalArticles, tallies and visibility counters, and date range endpoints
\* that resolve to the same instants.
C7_OrderIndependent ==
  (phase = "sum_out" /\ ~ret.throws) =>
     \A p \in Perms(Len(arg.items)) :
        LET other == generateSummary(Arr([i \in 1..Len(arg.items) |-> arg.items[p[i]]]), env.now).val
        IN /\ other.totalArticles = ret.val.totalArticles
           /\ other.articleTypes = ret.val.articleTypes
           /\ other.languages = ret.val.languages
           /\ other.publishStatuses = ret.val.publishStatuses
           /\ other.visibilityStats = ret.val.visibilityStats
           /\ Resolved(other.dateRange.earliest) = Resolved(ret.val.dateRange.earliest)
           /\ Resolved(other.dateRange.latest) = Resolved(ret.val.dateRange.latest)

CreatedDate(rec) == IF HasField(rec, "createdDate") THEN FieldOf(rec, "createdDate") ELSE Undefined

\* The records whose createdDate is present and parses as a date.
Dated(items) ==
  {i \in 1..Len(items) :
     /\ CreatedDate(items[i]).t = "string"
     /\ CreatedDate(items[i]).s # <<>>
     /\ ~NewDate(CreatedDate(items[i])).nan}

\* C8: the endpoints of the date range are createdDate values of records whose
\* timestamp is the minimum and the maximum over the records with a parseable
\* createdDate; they are null when no record has one.
C8_DateRangeSkipsUnparseable ==
  (phase = "sum_out" /\ ~ret.throws) =>
     LET dated == Dated(arg.items)
         at(i) == NewDate(CreatedDate(arg.items[i])).t
         dr == ret.val.dateRange
     IN IF dated = {} THEN dr.earliest = Null /\ dr.latest = Null
        ELSE /\ \E i \in dated : /\ dr.earliest = CreatedDate(arg.items[i])
                                 /\ \A j \in dated : at(i) <= at(j)
             /\ \E i \in dated : /\ dr.latest = CreatedDate(arg.items[i])
                                 /\ \A j \in dated : at(j) <= at(i)

FieldOrUndefined(rec, name) == IF HasField(rec, name) THEN FieldOf(rec, name) ELSE Undefined

\* The key a categorical value is counted under.
LiteralKey(v) ==
  CASE v.t = "string" -> v.s
    [] v.t = "null" -> <<"n", "u", "l", "l">>
    [] v.t = "undefined" -> <<"u", "n", "d", "e", "f", "i", "n", "e", "d">>

TallyIsCount(tally, items, name) ==
  /\ \A i \in 1..Len(items) :
       CopiesIn(LiteralKey(FieldOrUndefined(items[i], name)), tally) =
         Cardinality({j \in 1..Len(items) :
            LiteralKey(FieldOrUndefined(items[j], name)) = LiteralKey(FieldOrUndefined(items[i], name))})
  /\ BagToSet(tally) = {LiteralKey(FieldOrUndefined(items[i], name)) : i \in 1..Len(items)}
  /\ BagCardinality(tally) = Len(items)

FlagCount(items, name) ==
  Cardinality({i \in 1..Len(items) : Truthy(FieldOrUndefined(items[i], name))})

\* C9: totalArticles is the number of records; each categorical tally maps
\* every value to the number of records carrying it, null and absent values
\* under their literal key, so that its counts sum to totalArticles; each
\* visibility counter is the number of records whose flag is truthy.
C9_CountsAndTallies ==
  phase = "sum_out" =>
     /\ ~ret.throws
     /\ LET items == arg.items
            sm == ret.val
        IN /\ sm.totalArticles = Num(Len(items))
           /\ TallyIsCount(sm.articleTypes, items, "articleType")
           /\ TallyIsCount(sm.languages, items, "language")
           /\ TallyIsCount(sm.publishStatuses, items, "publishStatus")
           /\ sm.visibilityStats.visibleInPkb = FlagCount(items, "isVisibleInPkb")
           /\ sm.visibilityStats.visibleInCsp = FlagCount(items, "isVisibleInCsp")
           /\ sm.visibilityStats.visibleInPrm = FlagCount(items, "isVisibleInPrm")
           /\ sm.visibilityStats.visibleInPkb <= Len(items)
           /\ sm.visibilityStats.visibleInCsp <= Len(items)
           /\ sm.visibilityStats.visibleInPrm <= Len(items)

C9_Witness ==
  /\ phase = "sum_out"
  /\ Len(arg.items) = 3
  /\ CopiesIn(<<"n", "u", "l", "l">>, ret.val.articleTypes) = 1
  /\ CopiesIn(FAQ, ret.val.articleTypes) = 2
  /\ CopiesIn(<<"u", "n", "d", "e", "f", "i", "n", "e", "d">>, ret.val.languages) = 1
  /\ ret.val.visibilityStats = [visibleInPkb |-> 2, visibleInCsp |-> 1, visibleInPrm |-> 1]

====
